---- MODULE Spec2Model ----
(***************************************************************************)
(* Mutual-fund portfolio extraction (MutualFundPortfolioScraper) and the   *)
(* data-quality validator (PortfolioDataValidator).                        *)
(*                                                                         *)
(* Text is kept as TLA+ strings and the substring tests, lower-casing,     *)
(* stripping and the ISIN regular expression are computed character by     *)
(* character, as the Python code computes them.  A spreadsheet cell is a   *)
(* record [na, v]: na is pandas' isna(cell) and v is str(cell).            *)
(***************************************************************************)
EXTENDS Integers, Sequences, FiniteSets, TLC

VARIABLES
    \* ---- classifier harness (is_section_header / classify_instrument_type)
    c_row,          \* the row handed to the classifier
    c_base,         \* the row before an ISIN was put into one of its cells
    c_hdr,          \* <<>> or <<result of is_section_header(c_row)>>
    c_type,         \* "unset" or the result of classify_instrument_type(c_row)
    \* ---- run_full_automation / parse_excel_portfolios / extract_holdings_from_sheet
    pc,             \* position in run_full_automation and the calls it makes
    sheet_names,    \* xl_file.sheet_names
    scheme_sheets,  \* the sheets left after the skip filter
    sheet_i,        \* position of the for loop over scheme_sheets (1-based)
    df_columns,     \* columns of the sheet's data frame after the re-read
    df_rows,        \* rows of that data frame, in sheet order
    row_i,          \* position of df.iterrows() (1-based)
    current_instrument_type,
    holdings,       \* holdings of the sheet being processed
    all_holdings,   \* holdings of the sheets processed so far
    df,             \* <<>> (None) or <<records>>: what parse_excel_portfolios returned
    output_path,    \* what save_to_csv(df) returned to run_full_automation
    files,          \* paths of the files written to the output folder
    result,         \* "running", "None", a path, or the exception that ended the run
    \* ---- history kept for the properties
    h_rows,         \* for each element of holdings, the row of df_rows it came from
    log,            \* one entry per call of extract_holdings_from_sheet
    \* ---- PortfolioDataValidator
    v_pc,           \* position in run_all_checks
    v_df,           \* self.df: [columns, rows] as read from the CSV
    issues,         \* self.issues
    v_summary,      \* <<>> or <<what print_summary printed>>
    v_error,        \* "" or the exception that ended run_all_checks
    \* ---- history kept for the properties
    v_ran,          \* the checks of this run that ran to their end, in order
    v_appended,     \* the issues the checks appended since the validator was built
    v_runs,         \* completed runs of run_all_checks on this dataset
    v_first,        \* <<>> or <<issue list, verdict>> of the first completed run
    \* ---- find_header_row harness
    f_pc,           \* "idle", "read" once a sheet was read, "called" after the call
    f_df,           \* the rows of the sheet read without a header (header=None)
    f_idx,          \* what find_header_row(f_df) returned: None or <<idx>>
    \* ---- extract_holding_from_row harness
    x_pc,           \* "idle", "row" once a row was read, "called" after the call
    x_columns,      \* row.index: the cleaned column names of the sheet
    x_row,          \* the cells of the row, one per column
    x_holding,      \* what extract_holding_from_row returned: None or <<holding>>
    \* ---- history kept for the properties
    x_before        \* <<>> or <<[row, holding, k]>>: the row and its result before
                    \* the number in cell k was replaced by text

cvars == <<c_row, c_base, c_hdr, c_type>>
pvars == <<pc, sheet_names, scheme_sheets, sheet_i, df_columns, df_rows, row_i,
           current_instrument_type, holdings, all_holdings, df, output_path, files,
           result,
           h_rows, log>>
vvars == <<v_pc, v_df, issues, v_summary, v_error, v_ran, v_appended, v_runs,
           v_first>>
fvars == <<f_pc, f_df, f_idx>>
xvars == <<x_pc, x_columns, x_row, x_holding, x_before>>
vars == <<cvars, pvars, vvars, fvars, xvars>>

\* a step of one component leaves the others alone
OnlyClassifier == UNCHANGED <<pvars, vvars, fvars, xvars>>
OnlyPipeline == UNCHANGED <<cvars, vvars, fvars, xvars>>
OnlyValidator == UNCHANGED <<cvars, pvars, fvars, xvars>>
OnlyHeaderFinder == UNCHANGED <<cvars, pvars, vvars, xvars>>
OnlyExtractor == UNCHANGED <<cvars, pvars, vvars, fvars>>

----------------------------------------------------------------------------
(* Bounds of the model *)

\* cells per row handed to the classifier harness
MaxCells == 2
\* sheets of a workbook
MaxSheets == 2
\* data rows below the header, per sheet of a workbook
MaxRows == 2
\* data rows below the header of the sheet, in the one-sheet runs
MaxSheetRows == 3
\* records of a dataset handed to the validator
MaxRecords == 2
\* rows above the first header-like row of a sheet handed to find_header_row
MaxPad == 21
\* columns after the name column of a row handed to extract_holding_from_row
MaxExtraColumns == 2
\* runs of run_all_checks on one dataset
MaxRuns == 2

----------------------------------------------------------------------------
(* Strings *)

UpperChars == "ABCDEFGHIJKLMNOPQRSTUVWXYZ"
LowerChars == "abcdefghijklmnopqrstuvwxyz"
DigitChars == "0123456789"

CharAt(s, i) == SubSeq(s, i, i)

UpperSet == {CharAt(UpperChars, i) : i \in 1..Len(UpperChars)}
DigitSet == {CharAt(DigitChars, i) : i \in 1..Len(DigitChars)}

\* the lower-case letter of each upper-case letter
LowerOf ==
    [c \in UpperSet |->
        CharAt(LowerChars, CHOOSE i \in 1..Len(UpperChars) : CharAt(UpperChars, i) = c)]

LowerChar(c) == IF c \in UpperSet THEN LowerOf[c] ELSE c

RECURSIVE Lower(_)
\* str.lower()
Lower(s) ==
    IF s = "" THEN "" ELSE LowerChar(CharAt(s, 1)) \o Lower(SubSeq(s, 2, Len(s)))

\* Python's  k in s  on strings
Contains(s, k) ==
    \E i \in 1..(Len(s) - Len(k) + 1) : SubSeq(s, i, i + Len(k) - 1) = k

\* any(keyword in s for keyword in keywords)
ContainsAny(s, keywords) == \E k \in keywords : Contains(s, k)

IsSpace(c) == c = " " \/ c = "\t" \/ c = "\n"

RECURSIVE LStrip(_)
LStrip(s) ==
    IF s # "" /\ IsSpace(CharAt(s, 1)) THEN LStrip(SubSeq(s, 2, Len(s))) ELSE s

RECURSIVE RStrip(_)
RStrip(s) ==
    IF s # "" /\ IsSpace(CharAt(s, Len(s))) THEN RStrip(SubSeq(s, 1, Len(s) - 1)) ELSE s

\* str.strip()
Strip(s) == LStrip(RStrip(s))

\* re.match(r'^[A-Z]{2}[A-Z0-9]{9}[0-9]$', s): twelve characters of the three
\* classes; Python's $ also matches just before a final newline.
IsinBody(s) ==
    /\ Len(s) = 12
    /\ \A i \in 1..2 : CharAt(s, i) \in UpperSet
    /\ \A i \in 3..11 : CharAt(s, i) \in UpperSet \cup DigitSet
    /\ CharAt(s, 12) \in DigitSet

MatchesIsin(s) ==
    \/ IsinBody(s)
    \/ /\ Len(s) = 13
       /\ CharAt(s, 13) = "\n"
       /\ IsinBody(SubSeq(s, 1, 12))

----------------------------------------------------------------------------
(* Cells and rows *)

NaN == [na |-> TRUE, v |-> "nan"]
Cell(text) == [na |-> FALSE, v |-> text]

\* pd.notna(cell)
NotNa(cell) == ~cell.na

----------------------------------------------------------------------------
(* Cell Classifier *)

section_keywords ==
    { "equity", "debt instruments", "government securities", "corporate bonds",
      "money market", "net current", "listed", "unlisted", "awaiting listing",
      "privately placed", "reverse repo", "treps", "treasury",
      "certificate of deposit", "commercial paper" }

\* first_cell / second_cell / combined of is_section_header and classify_instrument_type
FirstCell(row) == IF NotNa(row[1]) THEN Lower(row[1].v) ELSE ""
SecondCell(row) == IF Len(row) > 1 /\ NotNa(row[2]) THEN Lower(row[2].v) ELSE ""
Combined(row) == FirstCell(row) \o " " \o SecondCell(row)

has_isin(row) == \E i \in 1..Len(row) : NotNa(row[i]) /\ MatchesIsin(row[i].v)

\* a plausible slip: the ISIN check looks at the first two cells only
is_section_header_two_cells(row) ==
    /\ ContainsAny(Combined(row), section_keywords)
    /\ ~ \E i \in 1..Len(row) : i <= 2 /\ NotNa(row[i]) /\ MatchesIsin(row[i].v)

is_section_header(row) ==
    IF ContainsAny(Combined(row), section_keywords)
    THEN ~has_isin(row)
    ELSE FALSE

equity_keywords == {"equity", "stock"}
debt_keywords == {"debt instruments", "government securities", "bond", "debenture"}
money_market_keywords ==
    { "money market", "cash", "liquid", "reverse repo", "treps", "treasury bill",
      "certificate of deposit", "commercial paper" }

\* a plausible slip: the Debt and Money Market branches swapped
classify_money_market_first(row) ==
    IF ContainsAny(Combined(row), equity_keywords) THEN "Equity"
    ELSE IF ContainsAny(Combined(row), money_market_keywords) THEN "Money Market"
    ELSE IF ContainsAny(Combined(row), debt_keywords) THEN "Debt"
    ELSE "Other"

classify_instrument_type(row) ==
    IF ContainsAny(Combined(row), equity_keywords) THEN "Equity"
    ELSE IF ContainsAny(Combined(row), debt_keywords) THEN "Debt"
    ELSE IF ContainsAny(Combined(row), money_market_keywords) THEN "Money Market"
    ELSE "Other"

----------------------------------------------------------------------------
(* Numbers.  A float is kept in hundredths: 4.2 is 420.  None is <<>> and   *)
(* a float x is <<x>>.                                                      *)

None == <<>>

DigitVal(c) == (CHOOSE i \in 1..10 : CharAt(DigitChars, i) = c) - 1

AllDigits(s) == \A i \in 1..Len(s) : CharAt(s, i) \in DigitSet

RECURSIVE DigitsValue(_)
DigitsValue(s) ==
    IF s = "" THEN 0
    ELSE 10 * DigitsValue(SubSeq(s, 1, Len(s) - 1)) + DigitVal(CharAt(s, Len(s)))

\* position of the first "." of s, or 0
DotAt(s) ==
    IF Contains(s, ".") THEN CHOOSE i \in 1..Len(s) :
                                /\ CharAt(s, i) = "."
                                /\ \A j \in 1..(i - 1) : CharAt(s, j) # "."
    ELSE 0

\* an unsigned decimal literal with at most two decimals: digits, digits.,
\* digits.digits or .digits
UnsignedFloat(s) ==
    LET d == DotAt(s)
        int == IF d = 0 THEN s ELSE SubSeq(s, 1, d - 1)
        frac == IF d = 0 THEN "" ELSE SubSeq(s, d + 1, Len(s))
    IN  IF /\ AllDigits(int) /\ AllDigits(frac)
           /\ Len(int) + Len(frac) > 0
           /\ Len(frac) <= 2
        THEN <<100 * DigitsValue(int)
               + (IF Len(frac) = 1 THEN 10 ELSE 1) * DigitsValue(frac)>>
        ELSE None

\* try: float(value) except: None   -- on the text of the cell.  The texts of
\* the model are decimal literals of at most two decimals or no number at all.
ParseFloat(text) ==
    LET s == Strip(text)
        neg == s # "" /\ CharAt(s, 1) = "-"
        signed == s # "" /\ (CharAt(s, 1) = "-" \/ CharAt(s, 1) = "+")
        u == UnsignedFloat(IF signed THEN SubSeq(s, 2, Len(s)) ELSE s)
    IN  IF u = None THEN None
        ELSE IF neg THEN <<0 - u[1]>> ELSE u

----------------------------------------------------------------------------
(* Row Extractor *)

amc_name == "Axis Mutual Fund"

\* holding[key] = value
SetKey(holding, key, value) == (key :> value) @@ holding

HasKey(holding, key) == key \in DOMAIN holding

skip_name_keywords ==
    { "total", "sub-total", "subtotal", "net current", "grand total",
      "net receivables", "net payables", "listed / awaiting",
      "privately placed", "unlisted", "benchmark", "risk-o-meter" }

\* the body of the loop over row.index, for one column
ExtractColumn(holding, col_name, cell) ==
    LET col_lower == Lower(col_name)
    IN  IF cell.na THEN holding
        ELSE IF ContainsAny(col_lower, {"name of the instrument", "name", "security"})
        THEN IF ~Contains(col_lower, "isin")
             THEN SetKey(holding, "instrument_name", Strip(cell.v))
             ELSE holding
        ELSE IF Contains(col_lower, "isin")
        THEN SetKey(holding, "isin", Strip(cell.v))
        ELSE IF Contains(col_lower, "industry") \/ Contains(col_lower, "rating")
        THEN SetKey(holding, "industry_rating", Strip(cell.v))
        ELSE IF Contains(col_lower, "quantity")
        THEN SetKey(holding, "quantity", ParseFloat(cell.v))
        ELSE IF ContainsAny(col_lower, {"market", "fair value", "value"})
        THEN IF \/ Contains(col_lower, "rs") \/ Contains(col_lower, "lakhs")
                \/ Contains(col_lower, "amount")
             THEN SetKey(holding, "market_value_lakhs", ParseFloat(cell.v))
             ELSE holding
        ELSE IF Contains(col_lower, "%") \/ Contains(col_lower, "net assets")
        THEN SetKey(holding, "percentage_of_portfolio", ParseFloat(cell.v))
        ELSE holding

RECURSIVE ExtractColumns(_, _, _, _)
\* for col_name in row.index: ...   from column i on
ExtractColumns(holding, columns, row, i) ==
    IF i > Len(columns) THEN holding
    ELSE ExtractColumns(ExtractColumn(holding, columns[i], row[i]), columns, row, i + 1)

\* row.isna().all()
AllNa(row) == \A i \in 1..Len(row) : row[i].na

\* two columns carry the same label: row[col_name] is then a Series and
\* `if pd.isna(value)` raises ValueError
DuplicateColumns(columns) ==
    \E i, j \in 1..Len(columns) : i # j /\ columns[i] = columns[j]

\* a plausible slip: float(value) outside a try, so text under a quantity
\* column raises ValueError
extract_holding_raises_on_text(row, columns) ==
    /\ ~AllNa(row)
    /\ \/ DuplicateColumns(columns)
       \/ \E i \in 1..Len(columns) :
             /\ ~row[i].na
             /\ Contains(Lower(columns[i]), "quantity")
             /\ ParseFloat(row[i].v) = None

\* the call raises instead of returning
extract_holding_raises(row, columns) == ~AllNa(row) /\ DuplicateColumns(columns)

\* a plausible slip: a name of three characters is long enough
KeepHolding_three_chars(holding) ==
    /\ HasKey(holding, "instrument_name")
    /\ holding["instrument_name"] # ""
    /\ ~ContainsAny(Lower(holding["instrument_name"]), skip_name_keywords)
    /\ Len(Strip(holding["instrument_name"])) >= 3

\* the post-construction filter: the record is returned
KeepHolding(holding) ==
    /\ HasKey(holding, "instrument_name")
    /\ holding["instrument_name"] # ""
    /\ ~ContainsAny(Lower(holding["instrument_name"]), skip_name_keywords)
    /\ Len(Strip(holding["instrument_name"])) > 3

\* None is <<>>, a holding h is <<h>>
extract_holding_from_row(row, columns, scheme_name, instrument_type, reporting_date) ==
    IF AllNa(row) THEN None
    ELSE LET holding == ExtractColumns(
                 [ amc_name |-> amc_name,
                   scheme_name |-> scheme_name,
                   instrument_type |-> instrument_type,
                   reporting_date |-> reporting_date ],
                 columns, row, 1)
         IN  IF KeepHolding(holding) THEN <<holding>> ELSE None

----------------------------------------------------------------------------
(* Sheet Processor *)

RECURSIVE IntText(_)
\* str(n) for n >= 0
IntText(n) ==
    IF n < 10 THEN CharAt(DigitChars, n + 1)
    ELSE IntText(n \div 10) \o CharAt(DigitChars, (n % 10) + 1)

\* both branches of find_reporting_date return the same date
find_reporting_date(grid) == "2025-12-31"

header_keywords == {"name", "isin", "quantity", "rating", "industry", "instrument"}

RECURSIVE JoinLower(_, _)
\* ' '.join([str(cell).lower() for cell in row if pd.notna(cell)])
JoinLower(row, i) ==
    IF i > Len(row) THEN ""
    ELSE IF row[i].na THEN JoinLower(row, i + 1)
    ELSE LET rest == JoinLower(row, i + 1)
             more == \E j \in (i + 1)..Len(row) : ~row[j].na
         IN  Lower(row[i].v) \o (IF more THEN " " ELSE "") \o rest

keyword_matches(row) ==
    LET row_text == JoinLower(row, 1)
    IN  Cardinality({keyword \in header_keywords : Contains(row_text, keyword)})

\* rows searched for the header
SearchWindow == 20

Min(a, b) == IF a < b THEN a ELSE b

\* a plausible slip: every row of the sheet is searched
find_header_row_whole_sheet(grid) ==
    LET hits == {idx \in 0..(Len(grid) - 1) : keyword_matches(grid[idx + 1]) >= 2}
    IN  IF hits = {} THEN None
        ELSE <<CHOOSE idx \in hits : \A other \in hits : idx <= other>>

\* the 0-based index of the header row as <<idx>>, or None
find_header_row(grid) ==
    LET hits == {idx \in 0..(Min(SearchWindow, Len(grid)) - 1) :
                    keyword_matches(grid[idx + 1]) >= 2}
    IN  IF hits = {} THEN None
        ELSE <<CHOOSE idx \in hits : \A other \in hits : idx <= other>>

\* the column labels pandas makes of the header row: an empty cell is
\* "Unnamed: <position>", a repeated label gets ".<count>"
HeaderLabels(header) ==
    [i \in 1..Len(header) |->
        IF header[i].na THEN "Unnamed: " \o IntText(i - 1)
        ELSE LET earlier == Cardinality({j \in 1..(i - 1) :
                                ~header[j].na /\ header[j].v = header[i].v})
             IN  IF earlier = 0 THEN header[i].v
                 ELSE header[i].v \o "." \o IntText(earlier)]

\* df.columns.str.strip().str.lower()
CleanColumns(labels) == [i \in 1..Len(labels) |-> Lower(Strip(labels[i]))]

\* a plausible slip: the banner is skipped without updating the section
SectionAfterBanner_stale(current, row) == current

\* current_instrument_type after the loop over df.iterrows() met a banner row
SectionAfterBanner(current, row) == classify_instrument_type(row)

----------------------------------------------------------------------------
(* Workbook Consolidator *)

skip_keywords == {"index", "summary", "contents", "note", "disclaimer"}

\* a plausible slip: the sheet name is not lower-cased before the test
IsSchemeSheet_case_sensitive(sheet) == ~ContainsAny(sheet, skip_keywords)

IsSchemeSheet(sheet) == ~ContainsAny(Lower(sheet), skip_keywords)

\* [sheet for sheet in sheet_names if not any(...)]
SchemeSheets(names) == SelectSeq(names, IsSchemeSheet)

----------------------------------------------------------------------------
(* run_full_automation and save_to_csv *)

output_folder == "/home/claude/output"

\* a plausible slip: only None is tested
NoData_none_only(d) == d = None

\* df is None or df.empty
NoData(d) == d = None \/ d[1] = <<>>

\* the path written, as <<path>>, or None when nothing is written
save_to_csv(d, filename) ==
    IF NoData(d) THEN None ELSE <<output_folder \o "/" \o filename>>

RECURSIVE ReplaceSpaces(_)
\* s.replace(' ', '_')
ReplaceSpaces(s) ==
    IF s = "" THEN ""
    ELSE (IF CharAt(s, 1) = " " THEN "_" ELSE CharAt(s, 1))
         \o ReplaceSpaces(SubSeq(s, 2, Len(s)))

type_filename(instrument_type) ==
    "portfolio_" \o ReplaceSpaces(Lower(instrument_type)) \o ".csv"

\* df['instrument_type'].unique()
InstrumentTypes(records) == {records[k]["instrument_type"] : k \in 1..Len(records)}

\* type_df = df[df['instrument_type'] == instrument_type]
TypeFrame(records, instrument_type) ==
    <<SelectSeq(records, LAMBDA h : h["instrument_type"] = instrument_type)>>

----------------------------------------------------------------------------
(* Workbooks the runs read: sheet names, header rows and data rows *)

SheetNamePool == {"Index", "Axis Bluechip Fund", "Axis Liquid Fund"}

\* sheet names of a workbook are distinct
SheetNameSeqs(n) ==
    UNION { {q \in [1..k -> SheetNamePool] : \A a, b \in 1..k : a # b => q[a] # q[b]}
            : k \in 0..n }

Row5(a, b, c, d, e) == <<a, b, c, d, e>>

TitleRow ==
    Row5(Cell("Monthly Portfolio Statement as on December 31, 2025"), NaN, NaN, NaN, NaN)

HeaderPlain ==
    Row5(Cell("Name"), Cell("ISIN"), Cell("Quantity"),
         Cell("Market Value (Rs Lakhs)"), Cell("% to Net Assets"))

HeaderLong ==
    Row5(Cell("Name of the Instrument "), Cell("ISIN"), Cell("Industry / Rating"),
         Cell("Market/Fair Value (Rs. in Lakhs)"), Cell("% to Net Assets"))

\* "Name" and "name " are one label after cleaning
HeaderRepeated ==
    Row5(Cell("Name"), Cell("name "), Cell("ISIN"), Cell("Quantity"), Cell("% to NAV"))

RowEquityBanner == Row5(Cell("Equity & Equity related"), NaN, NaN, NaN, NaN)
RowDebtBanner == Row5(Cell("Debt Instruments"), NaN, NaN, NaN, NaN)
RowReliance ==
    Row5(Cell("Reliance Industries Ltd"), Cell("INE002A01018"), Cell("100"),
         Cell("5000"), Cell("4.2"))
RowEquityNamed ==
    Row5(Cell(" HDFC Equity Savings "), Cell("INF179K01BB8"), Cell("N/A"),
         Cell("1200.5"), Cell("95.8"))
RowTotal == Row5(Cell("Total"), NaN, NaN, Cell("5000"), Cell("4.2"))
RowShortName == Row5(Cell("ITC"), Cell("INE154A01025"), Cell("10"), Cell("40"), Cell("0.5"))
RowNoName == Row5(NaN, Cell("INE009A01021"), Cell("5"), Cell("75"), Cell("1.25"))
RowBlank == Row5(NaN, NaN, NaN, NaN, NaN)

SheetRowPool ==
    { RowEquityBanner, RowDebtBanner, RowReliance, RowEquityNamed, RowTotal,
      RowShortName, RowNoName, RowBlank }

WorkbookRowPool == {RowEquityBanner, RowReliance, RowEquityNamed}

RowSeqs(pool, n) == UNION { [1..k -> pool] : k \in 0..n }

\* a title row, then a header row or none, then the data rows
Grids(headers, pool, n) ==
    { <<TitleRow>> \o h \o rows :
        h \in {<<>>} \cup {<<x>> : x \in headers}, rows \in RowSeqs(pool, n) }

WorkbookGrids == Grids({HeaderPlain, HeaderRepeated}, WorkbookRowPool, MaxRows)
SheetGrids == Grids({HeaderPlain, HeaderLong}, SheetRowPool, MaxSheetRows)

----------------------------------------------------------------------------
(* State before a run *)

PipelineIdle ==
    /\ pc = "idle"
    /\ sheet_names = <<>>
    /\ scheme_sheets = <<>>
    /\ sheet_i = 0
    /\ df_columns = <<>>
    /\ df_rows = <<>>
    /\ row_i = 0
    /\ current_instrument_type = "Unknown"
    /\ holdings = <<>>
    /\ all_holdings = <<>>
    /\ df = None
    /\ output_path = None
    /\ files = {}
    /\ result = "running"
    /\ h_rows = <<>>
    /\ log = <<>>

ValidatorIdle ==
    /\ v_pc = "idle"
    /\ v_df = [columns |-> {}, rows |-> <<>>]
    /\ issues = <<>>
    /\ v_summary = <<>>
    /\ v_error = ""
    /\ v_ran = <<>>
    /\ v_appended = <<>>
    /\ v_runs = 0
    /\ v_first = <<>>

ClassifierIdle ==
    /\ c_row = <<>>
    /\ c_base = <<>>
    /\ c_hdr = <<>>
    /\ c_type = "unset"

HeaderFinderIdle ==
    /\ f_pc = "idle"
    /\ f_df = <<>>
    /\ f_idx = None

ExtractorIdle ==
    /\ x_pc = "idle"
    /\ x_columns = <<>>
    /\ x_row = <<>>
    /\ x_holding = None
    /\ x_before = <<>>

----------------------------------------------------------------------------
(* run_full_automation, step 1 *)

\* the manual file exists, or the URL was found and the download succeeded
ExcelPathFound ==
    /\ pc = "start"
    /\ OnlyPipeline
    /\ pc' = "open"
    /\ UNCHANGED <<sheet_names, scheme_sheets, sheet_i, df_columns, df_rows, row_i,
                   current_instrument_type, holdings, all_holdings, df, output_path,
                   files, result, h_rows, log>>

\* no URL was found, the download failed or the file is not on disk: return None
ExcelPathMissing ==
    /\ pc = "start"
    /\ OnlyPipeline
    /\ pc' = "done"
    /\ result' = "None"
    /\ UNCHANGED <<sheet_names, scheme_sheets, sheet_i, df_columns, df_rows, row_i,
                   current_instrument_type, holdings, all_holdings, df, output_path,
                   files, h_rows, log>>

----------------------------------------------------------------------------
(* parse_excel_portfolios *)

\* pd.ExcelFile(excel_path) succeeds: sheet names read and filtered
OpenWorkbook ==
    /\ pc = "open"
    /\ OnlyPipeline
    /\ \E names \in SheetNameSeqs(MaxSheets) :
          /\ sheet_names' = names
          /\ scheme_sheets' = SchemeSheets(names)
    /\ all_holdings' = <<>>
    /\ sheet_i' = 1
    /\ pc' = "sheet"
    /\ UNCHANGED <<df_columns, df_rows, row_i, current_instrument_type, holdings, df,
                   output_path, files, result, h_rows, log>>

\* pd.ExcelFile(excel_path) raises: parse_excel_portfolios returns None
OpenWorkbookFails ==
    /\ pc = "open"
    /\ OnlyPipeline
    /\ df' = None
    /\ pc' = "parsed"
    /\ UNCHANGED <<sheet_names, scheme_sheets, sheet_i, df_columns, df_rows, row_i,
                   current_instrument_type, holdings, all_holdings, output_path,
                   files, result, h_rows, log>>

\* extract_holdings_from_sheet returned `out` for the current sheet:
\* if holdings: all_holdings.extend(holdings), and on to the next sheet
SheetReturns(out, cause) ==
    /\ all_holdings' = all_holdings \o out
    /\ log' = Append(log, [sheet |-> scheme_sheets[sheet_i], cause |-> cause,
                           out |-> out])
    /\ sheet_i' = sheet_i + 1
    /\ pc' = "sheet"
    /\ df_columns' = <<>>
    /\ df_rows' = <<>>
    /\ row_i' = 0
    /\ current_instrument_type' = "Unknown"
    /\ holdings' = <<>>
    /\ h_rows' = <<>>

\* a plausible slip: no handler in extract_holdings_from_sheet, so the exception
\* reaches the handler of parse_excel_portfolios, which returns None
SheetRaises_propagates(cause) ==
    /\ df' = None
    /\ pc' = "parsed"
    /\ UNCHANGED <<sheet_i, df_columns, df_rows, row_i, current_instrument_type,
                   holdings, all_holdings, h_rows, log>>

\* an exception inside extract_holdings_from_sheet: caught, logged, return []
SheetRaises(cause) == SheetReturns(<<>>, cause)

\* extract_holdings_from_sheet up to the loop: pd.read_excel raises
ReadSheetFails ==
    /\ pc = "sheet"
    /\ OnlyPipeline
    /\ sheet_i <= Len(scheme_sheets)
    /\ SheetRaises("read_error")
    /\ UNCHANGED <<sheet_names, scheme_sheets, df, output_path, files, result>>

\* extract_holdings_from_sheet up to the loop, on the raw grid `grid`
ReadSheet(grid) ==
    /\ pc = "sheet"
    /\ OnlyPipeline
    /\ sheet_i <= Len(scheme_sheets)
    /\ LET header_row_idx == find_header_row(grid)
       IN  IF header_row_idx = None
           THEN SheetReturns(<<>>, "no_header")
           ELSE /\ df_columns' = CleanColumns(HeaderLabels(grid[header_row_idx[1] + 1]))
                /\ df_rows' = SubSeq(grid, header_row_idx[1] + 2, Len(grid))
                /\ row_i' = 1
                /\ current_instrument_type' = "Unknown"
                /\ holdings' = <<>>
                /\ h_rows' = <<>>
                /\ pc' = "rows"
                /\ UNCHANGED <<sheet_i, all_holdings, log>>
    /\ UNCHANGED <<sheet_names, scheme_sheets, df, output_path, files, result>>

ReadWorkbookSheet == \E grid \in WorkbookGrids : ReadSheet(grid)

ReadSingleSheet == \E grid \in SheetGrids : ReadSheet(grid)

\* one pass of the loop over df.iterrows()
ProcessRow ==
    /\ pc = "rows"
    /\ OnlyPipeline
    /\ row_i <= Len(df_rows)
    /\ LET row == df_rows[row_i]
       IN  IF is_section_header(row)
           THEN /\ current_instrument_type' =
                       SectionAfterBanner(current_instrument_type, row)
                /\ row_i' = row_i + 1
                /\ UNCHANGED <<sheet_i, df_columns, df_rows, holdings, all_holdings,
                               h_rows, log, pc>>
           ELSE IF extract_holding_raises(row, df_columns)
           THEN SheetRaises("row_error")
           ELSE LET holding == extract_holding_from_row(
                        row, df_columns, scheme_sheets[sheet_i],
                        current_instrument_type, find_reporting_date(df_rows))
                IN  /\ holdings' = holdings \o holding
                    /\ h_rows' = IF holding = None THEN h_rows
                                 ELSE Append(h_rows, row_i)
                    /\ row_i' = row_i + 1
                    /\ UNCHANGED <<sheet_i, df_columns, df_rows,
                                   current_instrument_type, all_holdings, log, pc>>
    /\ UNCHANGED <<sheet_names, scheme_sheets, df, output_path, files, result>>

\* the loop is over: return holdings
SheetDone ==
    /\ pc = "rows"
    /\ OnlyPipeline
    /\ row_i > Len(df_rows)
    /\ SheetReturns(holdings, "ok")
    /\ UNCHANGED <<sheet_names, scheme_sheets, df, output_path, files, result>>

\* every scheme sheet was processed: return pd.DataFrame(all_holdings)
ParseDone ==
    /\ pc = "sheet"
    /\ OnlyPipeline
    /\ sheet_i > Len(scheme_sheets)
    /\ df' = <<all_holdings>>
    /\ pc' = "parsed"
    /\ UNCHANGED <<sheet_names, scheme_sheets, sheet_i, df_columns, df_rows, row_i,
                   current_instrument_type, holdings, all_holdings, output_path,
                   files, result, h_rows, log>>

----------------------------------------------------------------------------
(* run_full_automation, steps 2 to 4 *)

\* if df is None or df.empty: return None
AfterParse ==
    /\ pc = "parsed"
    /\ OnlyPipeline
    /\ IF NoData(df)
       THEN pc' = "done" /\ result' = "None"
       ELSE pc' = "save" /\ UNCHANGED result
    /\ UNCHANGED <<sheet_names, scheme_sheets, sheet_i, df_columns, df_rows, row_i,
                   current_instrument_type, holdings, all_holdings, df, output_path,
                   files, h_rows, log>>

\* output_path = self.save_to_csv(df)
SaveConsolidated ==
    /\ pc = "save"
    /\ OnlyPipeline
    /\ output_path' = save_to_csv(df, "consolidated_portfolio.csv")
    /\ files' = files \cup {output_path'[k] : k \in 1..Len(output_path')}
    /\ pc' = "split"
    /\ UNCHANGED <<sheet_names, scheme_sheets, sheet_i, df_columns, df_rows, row_i,
                   current_instrument_type, holdings, all_holdings, df, result,
                   h_rows, log>>

\* the loop over df['instrument_type'].unique() and the return
SplitByType ==
    /\ pc = "split"
    /\ OnlyPipeline
    /\ IF df[1] = <<>>
       THEN \* a frame without columns: df['instrument_type'] raises KeyError
            /\ result' = "KeyError"
            /\ UNCHANGED files
       ELSE /\ files' = files \cup
                   UNION { LET written == save_to_csv(TypeFrame(df[1], t),
                                                      type_filename(t))
                           IN  {written[k] : k \in 1..Len(written)}
                           : t \in InstrumentTypes(df[1]) \ {"Unknown"} }
            /\ result' = IF output_path = None THEN "None" ELSE output_path[1]
    /\ pc' = "done"
    /\ UNCHANGED <<sheet_names, scheme_sheets, sheet_i, df_columns, df_rows, row_i,
                   current_instrument_type, holdings, all_holdings, df, output_path,
                   h_rows, log>>

----------------------------------------------------------------------------
(* The run of the scraper on a workbook *)

Init ==
    /\ ClassifierIdle
    /\ ValidatorIdle
    /\ HeaderFinderIdle
    /\ ExtractorIdle
    /\ pc = "start"
    /\ sheet_names = <<>>
    /\ scheme_sheets = <<>>
    /\ sheet_i = 0
    /\ df_columns = <<>>
    /\ df_rows = <<>>
    /\ row_i = 0
    /\ current_instrument_type = "Unknown"
    /\ holdings = <<>>
    /\ all_holdings = <<>>
    /\ df = None
    /\ output_path = None
    /\ files = {}
    /\ result = "running"
    /\ h_rows = <<>>
    /\ log = <<>>

Next ==
    \/ ExcelPathFound
    \/ ExcelPathMissing
    \/ OpenWorkbook
    \/ OpenWorkbookFails
    \/ ReadSheetFails
    \/ ReadWorkbookSheet
    \/ ProcessRow
    \/ SheetDone
    \/ ParseDone
    \/ AfterParse
    \/ SaveConsolidated
    \/ SplitByType

Spec == Init /\ [][Next]_vars

----------------------------------------------------------------------------
(* parse_excel_portfolios on a workbook of one scheme sheet *)

SingleSheetName == "Axis Bluechip Fund"

InitSheet ==
    /\ ClassifierIdle
    /\ ValidatorIdle
    /\ HeaderFinderIdle
    /\ ExtractorIdle
    /\ pc = "sheet"
    /\ sheet_names = <<SingleSheetName>>
    /\ scheme_sheets = SchemeSheets(<<SingleSheetName>>)
    /\ sheet_i = 1
    /\ df_columns = <<>>
    /\ df_rows = <<>>
    /\ row_i = 0
    /\ current_instrument_type = "Unknown"
    /\ holdings = <<>>
    /\ all_holdings = <<>>
    /\ df = None
    /\ output_path = None
    /\ files = {}
    /\ result = "running"
    /\ h_rows = <<>>
    /\ log = <<>>

NextSheet ==
    \/ ReadSingleSheet
    \/ ProcessRow
    \/ SheetDone
    \/ ParseDone

SpecSheet == InitSheet /\ [][NextSheet]_vars

----------------------------------------------------------------------------
(* Properties of the Sheet Processor and the Row Extractor *)

MaxOf(S) == CHOOSE x \in S : \A y \in S : y <= x

\* the classification of the last banner row above row i, Unknown if there is none
SectionAbove(rows, i) ==
    LET banners == {j \in 1..(i - 1) : is_section_header(rows[j])}
    IN  IF banners = {} THEN "Unknown"
        ELSE classify_instrument_type(rows[MaxOf(banners)])

ScenarioRows == <<RowEquityBanner, RowReliance, RowTotal>>

\* C1: while the rows of a sheet stream past, the current section is the
\* classification of the most recent banner row (Unknown before the first);
\* no banner row emits a record; every emitted record carries the section of the
\* most recent banner row above it; and the sheet Equity banner, Reliance,
\* Total yields exactly the Reliance record, of type Equity.
C1_SectionTracking ==
    pc = "rows" =>
        /\ current_instrument_type = SectionAbove(df_rows, row_i)
        /\ Len(h_rows) = Len(holdings)
        /\ \A k \in 1..Len(holdings) :
              /\ h_rows[k] \in 1..(row_i - 1)
              /\ ~is_section_header(df_rows[h_rows[k]])
              /\ holdings[k]["instrument_type"] = SectionAbove(df_rows, h_rows[k])
        /\ (df_rows = ScenarioRows /\ row_i > Len(df_rows)) =>
              /\ Len(holdings) = 1
              /\ holdings[1]["instrument_name"] = "Reliance Industries Ltd"
              /\ holdings[1]["instrument_type"] = "Equity"

\* the scenario sheet was streamed to its end and gave one Equity record
C1_Witness ==
    /\ pc = "rows"
    /\ df_rows = ScenarioRows
    /\ row_i > Len(df_rows)
    /\ Len(holdings) = 1
    /\ holdings[1]["instrument_type"] = "Equity"

NoiseKeywords ==
    { "total", "sub-total", "subtotal", "net current", "grand total",
      "net receivables", "net payables", "listed / awaiting", "privately placed",
      "unlisted", "benchmark", "risk-o-meter" }

\* scheme_name is not null, instrument_name is present, longer than three
\* characters and free of noise keywords
CleanRecord(h) ==
    /\ "scheme_name" \in DOMAIN h
    /\ h["scheme_name"] # ""
    /\ "instrument_name" \in DOMAIN h
    /\ h["instrument_name"] # ""
    /\ Len(h["instrument_name"]) > 3
    /\ \A k \in NoiseKeywords : ~Contains(Lower(h["instrument_name"]), k)

SeqRange(q) == {q[k] : k \in 1..Len(q)}

\* C2: every record collected for a sheet, accumulated for the workbook or in
\* the returned dataset has a scheme name and a clean instrument name; no record
\* comes from a row whose cells are all empty or whose name cell (the first
\* column under the headers used) is empty.
C2_RecordsAreClean ==
    /\ \A h \in SeqRange(holdings) \cup SeqRange(all_holdings) : CleanRecord(h)
    /\ df # None => \A h \in SeqRange(df[1]) : CleanRecord(h)
    /\ pc = "rows" =>
          \A k \in 1..Len(holdings) :
              LET row == df_rows[h_rows[k]]
              IN  /\ ~AllNa(row)
                  /\ ~row[1].na
                  /\ holdings[k]["instrument_name"] = Strip(row[1].v)

\* a sheet holding a Total row, a short name and a blank row beside one real
\* holding was streamed to its end and gave that one record
C2_Witness ==
    /\ pc = "rows"
    /\ row_i > Len(df_rows)
    /\ {RowTotal, RowShortName, RowReliance} \subseteq SeqRange(df_rows)
    /\ Len(holdings) = 1
    /\ holdings[1]["instrument_name"] = "Reliance Industries Ltd"

----------------------------------------------------------------------------
(* Properties of the Workbook Consolidator and of run_full_automation *)

RECURSIVE Flatten(_)
\* the concatenation of the sequences of q, in order
Flatten(q) == IF q = <<>> THEN <<>> ELSE Head(q) \o Flatten(Tail(q))

LogOuts == [k \in 1..Len(log) |-> log[k].out]
LogSheets == [k \in 1..Len(log) |-> log[k].sheet]

ParseReturned == pc \in {"parsed", "save", "split", "done"} /\ df # None

\* C3: a sheet whose processing raised or that has no header row contributes no
\* record; the accumulated holdings are exactly the records the other sheets
\* returned, in order; and the loop went on to every later sheet: when
\* parse_excel_portfolios returns, every scheme sheet has been processed.
C3_PartialFailureIsolation ==
    /\ \A k \in 1..Len(log) : log[k].cause # "ok" => log[k].out = <<>>
    /\ all_holdings = Flatten(SelectSeq(LogOuts, LAMBDA out : out # <<>>))
    /\ pc \in {"sheet", "rows"} => LogSheets = SubSeq(scheme_sheets, 1, sheet_i - 1)
    /\ (pc \in {"parsed", "save", "split", "done"} /\ sheet_names # <<>>) =>
          /\ df # None
          /\ LogSheets = scheme_sheets
          /\ df[1] = all_holdings

\* a sheet that raised while its rows were read was followed by a sheet that
\* gave records, and the returned dataset holds exactly those
C3_Witness ==
    /\ ParseReturned
    /\ Len(log) = 2
    /\ log[1].cause = "row_error"
    /\ log[2].cause = "ok" /\ log[2].out # <<>>
    /\ df[1] = log[2].out

\* the lower-cased sheet name contains one of the five skip keywords
IsSkippedName(name) ==
    \E k \in {"index", "summary", "contents", "note", "disclaimer"} :
        Contains(Lower(name), k)

StrictlyIncreasing(q) == \A a, b \in 1..Len(q) : a < b => q[a] < q[b]

C4_State ==
    /\ \A k \in 1..Len(log) : ~IsSkippedName(log[k].sheet)
    /\ (pc = "rows" \/ (pc = "sheet" /\ sheet_i <= Len(scheme_sheets)))
          => ~IsSkippedName(scheme_sheets[sheet_i])
    /\ pc = "rows" =>
          /\ StrictlyIncreasing(h_rows)
          /\ \A k \in 1..Len(holdings) :
                holdings[k]["scheme_name"] = scheme_sheets[sheet_i]
    /\ ParseReturned =>
          /\ LogSheets = SelectSeq(sheet_names, LAMBDA name : ~IsSkippedName(name))
          /\ df[1] = Flatten(LogOuts)

\* a sheet that was streamed to its end hands its holdings over as they are
C4_Return ==
    (pc = "rows" /\ pc' = "sheet" /\ row_i > Len(df_rows)) =>
        /\ log'[Len(log')].out = holdings
        /\ all_holdings' = all_holdings \o holdings

\* C4: no sheet with a skip keyword in its lower-cased name is processed, every
\* other sheet is, in workbook order, and the returned holdings are the sheets'
\* holdings concatenated in that order, each sheet's in its row order.
C4_SkipAndConcatenate == []C4_State /\ [][C4_Return]_vars

\* a workbook Index, scheme sheet: only the scheme sheet was processed and it
\* gave two records
C4_Witness ==
    /\ ParseReturned
    /\ Len(sheet_names) = 2
    /\ sheet_names[1] = "Index"
    /\ Len(log) = 1
    /\ Len(df[1]) = 2

\* C7: a run that ends with zero records extracted returns None; and a file is
\* in the output folder only if a non-empty dataset was extracted.
C7_NoOutputWithoutData ==
    /\ (pc = "done" /\ all_holdings = <<>>) => (result = "None" /\ files = {})
    /\ files # {} => (df # None /\ df[1] # <<>> /\ all_holdings # <<>>)

\* the workbook was parsed, its sheets gave no record, and the run ended with
\* None and an empty output folder
C7_Witness ==
    /\ pc = "done"
    /\ Len(log) >= 1
    /\ df = <<(<<>>)>>
    /\ result = "None"
    /\ files = {}

----------------------------------------------------------------------------
(* PortfolioDataValidator.  A cell of the frame read from the CSV is <<>>   *)
(* (NaN) or <<value>>; numbers are in hundredths.                           *)

required_fields ==
    <<"amc_name", "scheme_name", "instrument_name", "instrument_type", "reporting_date">>

RECURSIVE ListText(_)
\* the elements of repr(list of str), without the brackets
ListText(q) ==
    IF q = <<>> THEN ""
    ELSE "'" \o Head(q) \o "'" \o (IF Len(q) > 1 THEN ", " ELSE "") \o ListText(Tail(q))

\* len() of the selection of the rows in `selected`
CountRows(frame, selected) == Cardinality({k \in 1..Len(frame.rows) : frame.rows[k] \in selected})

\* the distinct rows of the frame
RowSet(frame) == {frame.rows[k] : k \in 1..Len(frame.rows)}

\* the issues check_required_fields appends
RequiredFieldIssues(frame) ==
    LET missing == SelectSeq(required_fields, LAMBDA f : f \notin frame.columns)
    IN  IF missing # <<>>
        THEN <<"Missing required columns: [" \o ListText(missing) \o "]">>
        ELSE <<>>

\* read_csv gives a column without any value the dtype float64, on which the
\* .str accessor raises AttributeError
IsinAccessorRaises(frame) ==
    /\ "isin" \in frame.columns
    /\ frame.rows # <<>>
    /\ \A k \in 1..Len(frame.rows) : frame.rows[k]["isin"] = <<>>

\* the issues check_isin_format appends
IsinFormatIssues(frame) ==
    IF "isin" \notin frame.columns THEN <<>>
    ELSE LET invalid == CountRows(frame,
                 {r \in RowSet(frame) : r["isin"] # <<>> /\ ~MatchesIsin(r["isin"][1])})
         IN  IF invalid > 0
             THEN <<"Found " \o IntText(invalid) \o " invalid ISIN codes">>
             ELSE <<>>

\* the issues check_numeric_ranges appends
NumericRangeIssues(frame) ==
    LET out_of_range ==
            IF "percentage_of_portfolio" \in frame.columns
            THEN CountRows(frame, {r \in RowSet(frame) :
                     /\ r["percentage_of_portfolio"] # <<>>
                     /\ \/ r["percentage_of_portfolio"][1] < 0
                        \/ r["percentage_of_portfolio"][1] > 100 * 100})
            ELSE 0
        negative_values ==
            IF "market_value_lakhs" \in frame.columns
            THEN CountRows(frame, {r \in RowSet(frame) :
                     /\ r["market_value_lakhs"] # <<>>
                     /\ r["market_value_lakhs"][1] < 0})
            ELSE 0
    IN  (IF out_of_range > 0
         THEN <<"Found " \o IntText(out_of_range) \o " holdings with invalid percentage">>
         ELSE <<>>)
        \o
        (IF negative_values > 0
         THEN <<"Found " \o IntText(negative_values) \o " holdings with negative value">>
         ELSE <<>>)

RECURSIVE SumPercentages(_, _, _)
\* the sum of percentage_of_portfolio over the rows of one scheme, NaN skipped
SumPercentages(rows, scheme, k) ==
    IF k > Len(rows) THEN 0
    ELSE (IF rows[k]["scheme_name"] = <<scheme>> /\ rows[k]["percentage_of_portfolio"] # <<>>
          THEN rows[k]["percentage_of_portfolio"][1] ELSE 0)
         + SumPercentages(rows, scheme, k + 1)

\* the group keys of df.groupby('scheme_name'): NaN keys are dropped
Schemes(frame) ==
    {frame.rows[k]["scheme_name"][1] :
        k \in {j \in 1..Len(frame.rows) : frame.rows[j]["scheme_name"] # <<>>}}

\* df.groupby('scheme_name') raises KeyError
PortfolioSumRaises(frame) ==
    /\ "percentage_of_portfolio" \in frame.columns
    /\ "scheme_name" \notin frame.columns

\* a plausible slip: the ends of the band are flagged too
PortfolioSumIssues_inclusive(frame) ==
    IF "percentage_of_portfolio" \notin frame.columns THEN <<>>
    ELSE LET outlier_schemes ==
                 {sch \in Schemes(frame) :
                     \/ SumPercentages(frame.rows, sch, 1) <= 95 * 100
                     \/ SumPercentages(frame.rows, sch, 1) >= 105 * 100}
         IN  IF Cardinality(outlier_schemes) > 0
             THEN <<"Found " \o IntText(Cardinality(outlier_schemes))
                    \o " schemes with unusual portfolio sum">>
             ELSE <<>>

\* the issues check_portfolio_percentages appends
PortfolioSumIssues(frame) ==
    IF "percentage_of_portfolio" \notin frame.columns THEN <<>>
    ELSE LET outlier_schemes ==
                 {sch \in Schemes(frame) :
                     \/ SumPercentages(frame.rows, sch, 1) < 95 * 100
                     \/ SumPercentages(frame.rows, sch, 1) > 105 * 100}
         IN  IF Cardinality(outlier_schemes) > 0
             THEN <<"Found " \o IntText(Cardinality(outlier_schemes))
                    \o " schemes with unusual portfolio sum">>
             ELSE <<>>

\* df.duplicated(subset=['scheme_name', 'instrument_name']) raises KeyError
DuplicatesRaises(frame) ==
    \/ "scheme_name" \notin frame.columns
    \/ "instrument_name" \notin frame.columns

\* the issues check_duplicates appends
DuplicateIssues(frame) ==
    LET duplicates ==
            {k \in 1..Len(frame.rows) :
                \E j \in 1..Len(frame.rows) :
                    /\ j # k
                    /\ frame.rows[j]["scheme_name"] = frame.rows[k]["scheme_name"]
                    /\ frame.rows[j]["instrument_name"] = frame.rows[k]["instrument_name"]}
    IN  IF Cardinality(duplicates) > 0
        THEN <<"Found " \o IntText(Cardinality(duplicates)) \o " duplicate holdings">>
        ELSE <<>>

\* a plausible slip: the summary lists the issues but the first
Summary_drops_first(issue_list) ==
    IF Len(issue_list) = 0
    THEN [status |-> "PASSED", listed |-> <<>>]
    ELSE [status |-> "NEEDS_REVIEW", listed |-> Tail(issue_list)]

\* what print_summary prints: the verdict and the issues it enumerates
Summary(issue_list) ==
    IF Len(issue_list) = 0
    THEN [status |-> "PASSED", listed |-> <<>>]
    ELSE [status |-> "NEEDS_REVIEW",
          listed |-> [k \in 1..Len(issue_list) |-> issue_list[k]]]

\* one check of run_all_checks ran to its end, appending `appended`
CheckRan(name, appended, next_pc) ==
    /\ issues' = issues \o appended
    /\ v_appended' = v_appended \o appended
    /\ v_ran' = Append(v_ran, name)
    /\ v_pc' = next_pc
    /\ UNCHANGED <<v_df, v_summary, v_error, v_runs, v_first>>

\* a check raised: nothing in run_all_checks catches it
CheckRaised(error) ==
    /\ v_pc' = "crashed"
    /\ v_error' = error
    /\ UNCHANGED <<v_df, issues, v_summary, v_ran, v_appended, v_runs, v_first>>

\* PortfolioDataValidator(csv_path) on the same file
Construct ==
    /\ v_pc = "done"
    /\ OnlyValidator
    /\ v_runs < MaxRuns
    /\ issues' = <<>>
    /\ v_appended' = <<>>
    /\ v_summary' = <<>>
    /\ v_ran' = <<>>
    /\ v_pc' = "ready"
    /\ UNCHANGED <<v_df, v_error, v_runs, v_first>>

\* run_all_checks is called, on a new validator or on one that ran before
RunAllChecks ==
    /\ v_pc \in {"ready", "done"}
    /\ OnlyValidator
    /\ v_runs < MaxRuns
    /\ v_pc' = "required"
    /\ v_ran' = <<>>
    /\ v_summary' = <<>>
    /\ UNCHANGED <<v_df, issues, v_error, v_appended, v_runs, v_first>>

CheckRequiredFields ==
    /\ v_pc = "required"
    /\ OnlyValidator
    /\ CheckRan("required_fields", RequiredFieldIssues(v_df), "isin")

CheckIsinFormat ==
    /\ v_pc = "isin"
    /\ OnlyValidator
    /\ IF IsinAccessorRaises(v_df)
       THEN CheckRaised("AttributeError")
       ELSE CheckRan("isin_format", IsinFormatIssues(v_df), "ranges")

CheckNumericRanges ==
    /\ v_pc = "ranges"
    /\ OnlyValidator
    /\ CheckRan("numeric_ranges", NumericRangeIssues(v_df), "sums")

CheckPortfolioPercentages ==
    /\ v_pc = "sums"
    /\ OnlyValidator
    /\ IF PortfolioSumRaises(v_df)
       THEN CheckRaised("KeyError")
       ELSE CheckRan("portfolio_percentages", PortfolioSumIssues(v_df), "duplicates")

CheckDuplicates ==
    /\ v_pc = "duplicates"
    /\ OnlyValidator
    /\ IF DuplicatesRaises(v_df)
       THEN CheckRaised("KeyError")
       ELSE CheckRan("duplicates", DuplicateIssues(v_df), "missing")

\* the missing-value report prints and appends nothing
CheckMissingValues ==
    /\ v_pc = "missing"
    /\ OnlyValidator
    /\ CheckRan("missing_values", <<>>, "summary")

PrintSummary ==
    /\ v_pc = "summary"
    /\ OnlyValidator
    /\ v_summary' = <<Summary(issues)>>
    /\ v_runs' = v_runs + 1
    /\ v_first' = IF v_first = <<>> THEN <<issues, Summary(issues).status>> ELSE v_first
    /\ v_pc' = "done"
    /\ UNCHANGED <<v_df, issues, v_error, v_ran, v_appended>>

----------------------------------------------------------------------------
(* Datasets handed to the validator *)

AllColumns ==
    { "amc_name", "scheme_name", "instrument_name", "instrument_type", "isin",
      "market_value_lakhs", "percentage_of_portfolio", "reporting_date" }

ColumnSets ==
    { AllColumns,
      AllColumns \ {"scheme_name"},
      AllColumns \ {"isin", "market_value_lakhs", "percentage_of_portfolio"},
      AllColumns \ {"instrument_name", "percentage_of_portfolio"} }

ValidatorRecord(scheme, name, isin, value, pct) ==
    [ amc_name |-> <<amc_name>>, scheme_name |-> <<scheme>>, instrument_name |-> <<name>>,
      instrument_type |-> <<"Equity">>, isin |-> isin, market_value_lakhs |-> value,
      percentage_of_portfolio |-> pct, reporting_date |-> <<"2025-12-31">> ]

ValidatorRecords ==
    { ValidatorRecord("Axis Bluechip Fund", "Reliance Industries Ltd",
                      <<"INE002A01018">>, <<500000>>, <<9980>>),
      ValidatorRecord("Axis Bluechip Fund", "Reliance Industries Ltd",
                      <<>>, <<>>, <<20>>),
      ValidatorRecord("Axis Liquid Fund", "Tata Consultancy Services",
                      <<"INVALIDISIN">>, <<0 - 100>>, <<11000>>),
      ValidatorRecord("Axis Liquid Fund", "Infosys Ltd", <<>>, <<2500>>, <<>>),
      ValidatorRecord("Axis Bluechip Fund", "HDFC Bank Ltd",
                      <<"INE040A01034">>, <<470000>>, <<9480>>),
      ValidatorRecord("Axis Bluechip Fund", "ICICI Bank Ltd",
                      <<"INE090A01021">>, <<520000>>, <<10480>>) }

\* the frame read_csv makes of the records under the columns
Frame(columns, records) ==
    [ columns |-> columns,
      rows |-> [k \in 1..Len(records) |-> [c \in columns |-> records[k][c]]] ]

Datasets ==
    { Frame(columns, records) :
        columns \in ColumnSets,
        records \in UNION { [1..n -> ValidatorRecords] : n \in 0..MaxRecords } }

ValidatorInit ==
    /\ ClassifierIdle
    /\ PipelineIdle
    /\ HeaderFinderIdle
    /\ ExtractorIdle
    /\ v_pc = "ready"
    /\ v_df \in Datasets
    /\ issues = <<>>
    /\ v_summary = <<>>
    /\ v_error = ""
    /\ v_ran = <<>>
    /\ v_appended = <<>>
    /\ v_runs = 0
    /\ v_first = <<>>

ValidatorNext ==
    \/ Construct
    \/ RunAllChecks
    \/ CheckRequiredFields
    \/ CheckIsinFormat
    \/ CheckNumericRanges
    \/ CheckPortfolioPercentages
    \/ CheckDuplicates
    \/ CheckMissingValues
    \/ PrintSummary

SpecValidator == ValidatorInit /\ [][ValidatorNext]_vars

AllChecks ==
    << "required_fields", "isin_format", "numeric_ranges", "portfolio_percentages",
       "duplicates", "missing_values" >>

\* C5: whatever the dataset, a run of run_all_checks that has ended ran all six
\* checks, in order, and reached the summary.
C5_AllChecksRun ==
    v_pc \in {"done", "crashed"} => (v_ran = AllChecks /\ v_summary # <<>>)

\* C6: once run_all_checks has completed on a dataset, every later completed run
\* on it ends with the issue list and the verdict of the first.
C6_SecondRunIdentical ==
    (v_pc = "done" /\ v_first # <<>>) =>
        /\ issues = v_first[1]
        /\ v_summary[1].status = v_first[2]

\* C8: the verdict is PASSED exactly when the issue list is empty after all
\* checks; otherwise it is NEEDS_REVIEW and the summary lists every issue the
\* checks appended, in the order appended.
C8_VerdictMatchesIssues ==
    v_summary # <<>> =>
        /\ v_ran = AllChecks
        /\ v_summary[1].status \in {"PASSED", "NEEDS_REVIEW"}
        /\ v_summary[1].status = "PASSED" <=> issues = <<>>
        /\ v_summary[1].status = "NEEDS_REVIEW" =>
              /\ v_summary[1].listed = v_appended
              /\ v_summary[1].listed = issues

\* a run ended NEEDS_REVIEW with two issues listed
C8_Witness ==
    /\ v_pc = "done"
    /\ v_summary # <<>>
    /\ v_summary[1].status = "NEEDS_REVIEW"
    /\ Len(v_summary[1].listed) = 2
    /\ v_runs = 1

----------------------------------------------------------------------------
(* Classifier harness: rows drawn from a bounded set, the two functions     *)
(* applied to them, and an ISIN put into a cell of the row.                 *)

SampleIsin == "INE002A01018"

ClassifierCells ==
    { NaN,
      Cell("Equity & Equity related"),
      Cell("Corporate Bonds / Commercial Paper"),
      Cell("Equity and Money Market"),
      Cell("money"),
      Cell("Market value"),
      Cell("Reliance Industries Ltd"),
      Cell("ine002a01018") }

ClassifierRows ==
    UNION { [1..n -> ClassifierCells] : n \in 1..MaxCells }

ClassifierInit ==
    /\ PipelineIdle
    /\ ValidatorIdle
    /\ HeaderFinderIdle
    /\ ExtractorIdle
    /\ c_row \in ClassifierRows
    /\ c_base = <<>>
    /\ c_hdr = <<>>
    /\ c_type = "unset"

CallIsSectionHeader ==
    /\ OnlyClassifier
    /\ c_hdr = <<>>
    /\ c_hdr' = <<is_section_header(c_row)>>
    /\ UNCHANGED <<c_row, c_base, c_type>>

CallClassifyInstrumentType ==
    /\ OnlyClassifier
    /\ c_type = "unset"
    /\ c_type' = classify_instrument_type(c_row)
    /\ UNCHANGED <<c_row, c_base, c_hdr>>

\* the caller overwrites cell k of the row with an ISIN-pattern string
PutIsinInCell ==
    /\ OnlyClassifier
    /\ c_base = <<>>
    /\ \E k \in 1..Len(c_row), isin \in {SampleIsin, SampleIsin \o "\n"} :
          c_row' = [c_row EXCEPT ![k] = Cell(isin)]
    /\ c_base' = c_row
    /\ c_hdr' = <<>>
    /\ c_type' = "unset"

\* the caller appends a cell holding an ISIN-pattern string to the row
AppendIsinCell ==
    /\ OnlyClassifier
    /\ c_base = <<>>
    /\ Len(c_row) < MaxCells + 1
    /\ c_row' = Append(c_row, Cell(SampleIsin))
    /\ c_base' = c_row
    /\ c_hdr' = <<>>
    /\ c_type' = "unset"

ClassifierNext ==
    \/ CallIsSectionHeader
    \/ CallClassifyInstrumentType
    \/ PutIsinInCell
    \/ AppendIsinCell

SpecClassifier == ClassifierInit /\ [][ClassifierNext]_vars

\* the row's first two cells, lower-cased and joined, contain a banner keyword
HasBannerKeyword(row) == ContainsAny(Combined(row), section_keywords)

\* some cell of the row matches ^[A-Z]{2}[A-Z0-9]{9}[0-9]$
SomeCellIsIsin(row) == \E i \in 1..Len(row) : NotNa(row[i]) /\ MatchesIsin(row[i].v)

\* C9: is_section_header is true for every row whose first two cells contain a
\* banner keyword and in which no cell matches the ISIN pattern; once an
\* ISIN-pattern string has been put into any cell of such a row it is false;
\* and it is false for every row whose first two cells hold no banner keyword,
\* whatever the other cells hold.
C9_SectionHeaderDecision ==
    c_hdr # <<>> =>
        /\ (HasBannerKeyword(c_row) /\ ~SomeCellIsIsin(c_row)) => c_hdr[1] = TRUE
        /\ (c_base # <<>> /\ HasBannerKeyword(c_base) /\ ~SomeCellIsIsin(c_base))
              => c_hdr[1] = FALSE
        /\ ~HasBannerKeyword(c_row) => c_hdr[1] = FALSE

\* a banner row to which an ISIN cell was added behind the first two cells was
\* re-classified as not a banner
C9_Witness ==
    /\ c_base # <<>>
    /\ HasBannerKeyword(c_base) /\ ~SomeCellIsIsin(c_base)
    /\ Len(c_row) = 3 /\ c_row[3] = Cell(SampleIsin)
    /\ HasBannerKeyword(c_row)
    /\ c_hdr = <<FALSE>>

\* C10: classify_instrument_type never returns Unknown; every row yields exactly
\* one of Equity, Debt, Money Market, Other, decided by the keywords in the first
\* two cells with precedence Equity > Debt > Money Market > Other.
C10_ClassifyTotalWithPrecedence ==
    c_type # "unset" =>
        LET text == Combined(SubSeq(c_row, 1, IF Len(c_row) < 2 THEN Len(c_row) ELSE 2))
            eq == ContainsAny(text, equity_keywords)
            de == ContainsAny(text, debt_keywords)
            mm == ContainsAny(text, money_market_keywords)
        IN  /\ c_type \in {"Equity", "Debt", "Money Market", "Other"}
            /\ eq => c_type = "Equity"
            /\ (~eq /\ de) => c_type = "Debt"
            /\ (~eq /\ ~de /\ mm) => c_type = "Money Market"
            /\ (~eq /\ ~de /\ ~mm) => c_type = "Other"

\* a banner with both a Debt and a Money Market keyword was classified Debt
C10_Witness ==
    /\ c_type = "Debt"
    /\ ContainsAny(Combined(c_row), debt_keywords)
    /\ ContainsAny(Combined(c_row), money_market_keywords)

----------------------------------------------------------------------------
(* find_header_row harness: a sheet read without a header, of up to         *)
(* MaxPad + 3 rows, and the function applied to it.                         *)

\* rows with fewer than two of the header keywords
RowOneKeyword == Row5(Cell("Scheme Name"), Cell("NAME"), NaN, NaN, NaN)

FillerRows == {RowBlank, RowOneKeyword, RowReliance}

\* rows with two or more of the header keywords
RowTwoInOneCell == Row5(Cell("Name of the Instrument"), NaN, NaN, NaN, NaN)
RowTwoAcrossCells == Row5(NaN, Cell("Rating"), NaN, Cell("INDUSTRY"), NaN)

HeaderLikeRows == {HeaderPlain, RowTwoInOneCell, RowTwoAcrossCells}

Repeat(row, n) == [k \in 1..n |-> row]

OptionalRow(pool) == {<<>>} \cup {<<r>> : r \in pool}

\* filler rows, a header-like row or none, a filler row or none, a second
\* header-like row or none
HeaderFinderGrids ==
    { Repeat(filler, pad) \o first \o Repeat(filler, gap) \o second :
        filler \in FillerRows, pad \in 0..MaxPad, first \in OptionalRow(HeaderLikeRows),
        gap \in 0..1, second \in OptionalRow(HeaderLikeRows) }

\* df = pd.read_excel(excel_path, sheet_name=sheet_name, header=None)
ReadSheetWithoutHeader ==
    /\ f_pc = "idle"
    /\ OnlyHeaderFinder
    /\ f_df' \in HeaderFinderGrids
    /\ f_idx' = None
    /\ f_pc' = "read"

\* header_row_idx = self.find_header_row(df)
CallFindHeaderRow ==
    /\ f_pc = "read"
    /\ OnlyHeaderFinder
    /\ f_idx' = find_header_row(f_df)
    /\ f_pc' = "called"
    /\ UNCHANGED f_df

HeaderFinderInit ==
    /\ ClassifierIdle
    /\ PipelineIdle
    /\ ValidatorIdle
    /\ ExtractorIdle
    /\ HeaderFinderIdle

HeaderFinderNext ==
    \/ ReadSheetWithoutHeader
    \/ CallFindHeaderRow

SpecHeaderFinder == HeaderFinderInit /\ [][HeaderFinderNext]_vars

\* the joined lower-cased non-empty cells of the row hold two distinct keywords
HasTwoKeywords(row) ==
    \E k1, k2 \in {"name", "isin", "quantity", "rating", "industry", "instrument"} :
        /\ k1 # k2
        /\ Contains(JoinLower(row, 1), k1)
        /\ Contains(JoinLower(row, 1), k2)

\* C11: find_header_row returns the smallest index among the first 20 rows
\* whose joined lower-cased non-empty cells contain two distinct header
\* keywords, and not-found when no row of that window has two, also when such
\* a row exists at index 20 or later only.
C11_FirstHeaderRowInWindow ==
    f_pc = "called" =>
        LET in_window == {idx \in 0..(Len(f_df) - 1) :
                             idx < 20 /\ HasTwoKeywords(f_df[idx + 1])}
        IN  /\ in_window = {} => f_idx = None
            /\ in_window # {} =>
                  /\ f_idx # None
                  /\ f_idx[1] \in in_window
                  /\ \A other \in in_window : f_idx[1] <= other

\* the only header-like row of the sheet is at index 20 and the call returned
\* not-found
C11_Witness ==
    /\ f_pc = "called"
    /\ Len(f_df) > 20
    /\ HasTwoKeywords(f_df[21])
    /\ \A k \in 1..20 : ~HasTwoKeywords(f_df[k])
    /\ f_idx = None

----------------------------------------------------------------------------
(* The portfolio-sum check *)

RECURSIVE TotalPercentage(_, _)
\* the percentages of the rows ks of the frame added up, in hundredths; an
\* empty percentage adds nothing
TotalPercentage(frame, ks) ==
    IF ks = {} THEN 0
    ELSE LET k == CHOOSE j \in ks : TRUE
             pct == frame.rows[k]["percentage_of_portfolio"]
         IN  (IF pct = <<>> THEN 0 ELSE pct[1]) + TotalPercentage(frame, ks \ {k})

RowsOfScheme(frame, scheme) ==
    {k \in 1..Len(frame.rows) : frame.rows[k]["scheme_name"] = <<scheme>>}

SchemeNames(frame) ==
    {name \in {"Axis Bluechip Fund", "Axis Liquid Fund"} : RowsOfScheme(frame, name) # {}}

\* the schemes whose percentages add up to less than 95 or more than 105
SchemesOutsideBand(frame) ==
    {name \in SchemeNames(frame) :
        \/ TotalPercentage(frame, RowsOfScheme(frame, name)) < 9500
        \/ TotalPercentage(frame, RowsOfScheme(frame, name)) > 10500}

\* C12: the portfolio-sum check flags a scheme if and only if its percentages
\* add up to less than 95 or more than 105 (exactly 95 and exactly 105 are not
\* flagged); it appends one issue carrying the number of flagged schemes when
\* there is one, and nothing otherwise.
C12_PortfolioSumFlagging ==
    [][ (v_pc = "sums" /\ v_pc' = "duplicates") =>
          IF "percentage_of_portfolio" \notin v_df.columns THEN issues' = issues
          ELSE LET flagged == Cardinality(SchemesOutsideBand(v_df))
               IN  issues' = issues \o
                       (IF flagged > 0
                        THEN <<"Found " \o IntText(flagged)
                               \o " schemes with unusual portfolio sum">>
                        ELSE <<>>) ]_vars

\* two schemes with the sums 99.8 and 110.0: the check appended the issue of
\* one flagged scheme
C12_Witness ==
    /\ v_pc = "duplicates"
    /\ v_runs = 0
    /\ "percentage_of_portfolio" \in v_df.columns
    /\ "scheme_name" \in v_df.columns
    /\ Len(v_df.rows) = 2
    /\ TotalPercentage(v_df, RowsOfScheme(v_df, "Axis Bluechip Fund")) = 9980
    /\ RowsOfScheme(v_df, "Axis Bluechip Fund") # {}
    /\ TotalPercentage(v_df, RowsOfScheme(v_df, "Axis Liquid Fund")) = 11000
    /\ issues # <<>>
    /\ issues[Len(issues)] = "Found 1 schemes with unusual portfolio sum"

\* a scheme of two holdings adding up to exactly 95 went through the check
\* and no scheme was reported
C12_WitnessBandEnd ==
    /\ v_pc = "duplicates"
    /\ v_runs = 0
    /\ "percentage_of_portfolio" \in v_df.columns
    /\ "scheme_name" \in v_df.columns
    /\ Cardinality(RowsOfScheme(v_df, "Axis Bluechip Fund")) = 2
    /\ TotalPercentage(v_df, RowsOfScheme(v_df, "Axis Bluechip Fund")) = 9500
    /\ \A k \in 1..Len(issues) : ~Contains(issues[k], "unusual portfolio sum")

----------------------------------------------------------------------------
(* extract_holding_from_row harness: a row under a name column and up to    *)
(* MaxExtraColumns further columns, the function applied to it, and the     *)
(* number of one cell replaced by text before a second call.               *)

NameColumn == "name of the instrument"

\* cleaned labels of the columns after the name column
ExtraColumnPool ==
    { "isin", "isin / security code", "quantity", "market value (rs lakhs)",
      "% to net assets", "% of market value" }

\* the columns holding the quantity, the market value and the percentage
NumberColumns == {"quantity", "market value (rs lakhs)", "% to net assets"}

NameCells == {Cell("Reliance Industries Ltd"), Cell("Total")}

ExtraCells == {NaN, Cell("INE002A01018"), Cell("4.2"), Cell("N/A")}

\* sequences of n different labels
ColumnSeqs(n) ==
    {q \in [1..n -> ExtraColumnPool] : \A i, j \in 1..n : i # j => q[i] # q[j]}

\* <<columns, row>>: the name column first, or the same label on two columns
ExtractorInputs ==
    UNION { { << <<NameColumn>> \o extra, <<name>> \o cells >> :
                name \in NameCells, extra \in ColumnSeqs(n),
                cells \in [1..n -> ExtraCells] } : n \in 0..MaxExtraColumns }
    \cup { << <<"name", "name", "isin">>,
              <<Cell("Reliance Industries Ltd"), NaN, Cell("INE002A01018")>> >> }

\* for idx, row in df.iterrows(): a row of the sheet reaches the extractor
ReadRow ==
    /\ x_pc = "idle"
    /\ OnlyExtractor
    /\ \E input \in ExtractorInputs :
          /\ x_columns' = input[1]
          /\ x_row' = input[2]
    /\ x_pc' = "row"
    /\ UNCHANGED <<x_holding, x_before>>

\* holding = self.extract_holding_from_row(row, scheme_name=..., ...)
CallExtractHoldingFromRow ==
    /\ x_pc = "row"
    /\ OnlyExtractor
    /\ IF extract_holding_raises(x_row, x_columns)
       THEN /\ x_pc' = "raised"
            /\ x_holding' = None
       ELSE /\ x_pc' = "called"
            /\ x_holding' = extract_holding_from_row(
                                x_row, x_columns, SingleSheetName, "Equity",
                                find_reporting_date(<<x_row>>))
    /\ UNCHANGED <<x_columns, x_row, x_before>>

\* the same row with text where cell k held a number
NumberBecomesText ==
    /\ x_pc = "called"
    /\ OnlyExtractor
    /\ x_before = <<>>
    /\ \E k \in 1..Len(x_row) :
          /\ x_columns[k] \in NumberColumns
          /\ ~x_row[k].na
          /\ ParseFloat(x_row[k].v) # None
          /\ x_row' = [x_row EXCEPT ![k] = Cell("N/A")]
          /\ x_before' = <<[row |-> x_row, holding |-> x_holding, k |-> k]>>
    /\ x_holding' = None
    /\ x_pc' = "row"
    /\ UNCHANGED x_columns

ExtractorInit ==
    /\ ClassifierIdle
    /\ PipelineIdle
    /\ ValidatorIdle
    /\ HeaderFinderIdle
    /\ ExtractorIdle

ExtractorNext ==
    \/ ReadRow
    \/ CallExtractHoldingFromRow
    \/ NumberBecomesText

SpecExtractor == ExtractorInit /\ [][ExtractorNext]_vars

\* the last column from position k on whose label holds the word and whose
\* cell is not empty is column k
LastFilled(k, word) ==
    /\ Contains(x_columns[k], word)
    /\ ~x_row[k].na
    /\ \A j \in (k + 1)..Len(x_columns) : ~(Contains(x_columns[j], word) /\ ~x_row[j].na)

\* C13: in an emitted record, a non-empty cell under a column whose name
\* contains 'isin' -- also one that contains 'name' or 'security' as well, such
\* as 'isin / security code' -- is the isin of the record and is never its
\* instrument_name.
C13_IsinColumnPopulatesIsin ==
    (x_pc = "called" /\ x_holding # None) =>
        \A k \in 1..Len(x_columns) :
            LastFilled(k, "isin") =>
                /\ HasKey(x_holding[1], "isin")
                /\ x_holding[1]["isin"] = Strip(x_row[k].v)
                /\ x_holding[1]["instrument_name"] # Strip(x_row[k].v)

\* a marketValue column: 'market', 'fair value' or 'value', and also 'rs',
\* 'lakhs' or 'amount'
IsMarketValueColumn(col) ==
    /\ ContainsAny(col, {"market", "fair value", "value"})
    /\ ContainsAny(col, {"rs", "lakhs", "amount"})

\* the column belongs to a category before marketValue
InEarlierCategory(col) ==
    \/ ContainsAny(col, {"name", "security"}) /\ ~Contains(col, "isin")
    \/ Contains(col, "isin")
    \/ Contains(col, "industry") \/ Contains(col, "rating")
    \/ Contains(col, "quantity")

\* a percentage column: '%' or 'net assets', no earlier category and not a
\* marketValue column
IsPercentageColumn(col) ==
    /\ Contains(col, "%") \/ Contains(col, "net assets")
    /\ ~InEarlierCategory(col)
    /\ ~IsMarketValueColumn(col)

\* C14: in an emitted record the market value comes from a column that
\* contains 'market', 'fair value' or 'value' and also 'rs', 'lakhs' or
\* 'amount'; and a non-empty cell under a column that contains '%' or
\* 'net assets', is in no earlier category and is not such a marketValue
\* column ('% of market value') is, parsed, the percentage_of_portfolio.
C14_PercentageColumnPopulatesPercentage ==
    (x_pc = "called" /\ x_holding # None) =>
        /\ HasKey(x_holding[1], "market_value_lakhs") =>
              \E k \in 1..Len(x_columns) :
                  /\ IsMarketValueColumn(x_columns[k])
                  /\ ~x_row[k].na
                  /\ x_holding[1]["market_value_lakhs"] = ParseFloat(x_row[k].v)
        /\ \A k \in 1..Len(x_columns) :
              ( /\ IsPercentageColumn(x_columns[k])
                /\ ~x_row[k].na
                /\ \A j \in (k + 1)..Len(x_columns) :
                       ~(IsPercentageColumn(x_columns[j]) /\ ~x_row[j].na) )
              => /\ HasKey(x_holding[1], "percentage_of_portfolio")
                 /\ x_holding[1]["percentage_of_portfolio"] = ParseFloat(x_row[k].v)

\* the field of the record a number column fills
NumberField(col) ==
    CASE col = "quantity" -> "quantity"
      [] col = "market value (rs lakhs)" -> "market_value_lakhs"
      [] col = "% to net assets" -> "percentage_of_portfolio"

\* the columns of the row are all different
DistinctColumns == \A i, j \in 1..Len(x_columns) : i # j => x_columns[i] # x_columns[j]

\* C15: text where a quantity, market-value or percentage column expects a
\* number never aborts the row: the call returns, that field of the record is
\* null, every other field is what it is with a number in the cell, and the
\* record is emitted whenever the instrument name passes the filter.
C15_ParseFailureNullsOneField ==
    (x_pc \in {"called", "raised"} /\ DistinctColumns) =>
        /\ x_pc = "called"
        /\ x_row[1] = Cell("Reliance Industries Ltd") => x_holding # None
        /\ x_holding # None =>
              \A k \in 1..Len(x_columns) :
                  ( /\ x_columns[k] \in NumberColumns
                    /\ ~x_row[k].na
                    /\ ParseFloat(x_row[k].v) = None )
                  => /\ HasKey(x_holding[1], NumberField(x_columns[k]))
                     /\ x_holding[1][NumberField(x_columns[k])] = None
        /\ x_before # <<>> =>
              /\ (x_holding = None) <=> (x_before[1].holding = None)
              /\ x_holding # None =>
                    LET new == x_holding[1]
                        old == x_before[1].holding[1]
                        field == NumberField(x_columns[x_before[1].k])
                    IN  /\ DOMAIN new = DOMAIN old
                        /\ old[field] # None
                        /\ new[field] = None
                        /\ \A key \in DOMAIN new \ {field} : new[key] = old[key]

\* the quantity of an emitted record became text: the record is emitted
\* again, without quantity and with the market value it had
C15_Witness ==
    /\ x_pc = "called"
    /\ x_before # <<>>
    /\ x_holding # None
    /\ x_columns = <<NameColumn, "quantity", "market value (rs lakhs)">>
    /\ x_before[1].k = 2
    /\ x_before[1].holding # None
    /\ x_before[1].holding[1]["quantity"] = <<420>>
    /\ x_holding[1]["quantity"] = None
    /\ x_holding[1]["market_value_lakhs"] = <<420>>

====
